---- MODULE Spec2Model ----
(***************************************************************************)
(* A model of the SEO analysis tool: the command line workflow of          *)
(* master_seo_analyzer.py, the page analysis and the per-page record store *)
(* of seo_crawler.py, and the aggregation of compile_results.py.           *)
(*                                                                         *)
(* Python strings are TLA+ strings; TLC evaluates Len, \o, SubSeq, Head    *)
(* and Tail on them, and ToString(n) is the decimal text of n as str(n).   *)
(***************************************************************************)
EXTENDS Integers, Sequences, FiniteSets, TLC

VARIABLES
    mode,           \* the command line: "single", "batch", "full_single", "full_batch", "compile_only"
    has_url_column, \* whether the batch file has a column named url
    urls,           \* the URLs of the run, in file order (one URL in single mode)
    pc,             \* the position of the process
    i,              \* the loop index of analyze_batch_urls (1-based)
    now,            \* the clock, read by datetime.now()
    response,       \* the last reply of the scraping API (NoResponse before any)
    analysis,       \* the PageAnalysis returned by the last analyze_page (NoAnalysis before any)
    output_path,    \* the file name export_to_csv last derived ("" before any)
    store,          \* the results directory: file name -> sequence of CSV lines
    success_count,  \* analyze_batch_urls: pages analysed and exported
    attempts,       \* the URLs handed to analyze_page so far, in order
    compile_runs,   \* how many times compile_to_excel was entered
    artifact,       \* the spreadsheet written by compile_to_excel (NoArtifact when none)
    last_error,     \* the error line the process printed last ("" when none)
    exit_code       \* the exit status of the process (-1 while it runs)

vars == <<mode, has_url_column, urls, pc, i, now, response, analysis, output_path,
          store, success_count, attempts, compile_runs, artifact, last_error,
          exit_code>>

(***************************************************************************)
(* Strings.                                                                *)
(***************************************************************************)
\* s[k] as a one-character string, "" outside the string
CharAt(s, k) == IF k >= 1 /\ k <= Len(s) THEN SubSeq(s, k, k) ELSE ""

Drop(s, k) == SubSeq(s, k + 1, Len(s))

StartsWith(s, p) == Len(s) >= Len(p) /\ SubSeq(s, 1, Len(p)) = p

\* str.endswith
EndsWith(s, p) == Len(s) >= Len(p) /\ SubSeq(s, Len(s) - Len(p) + 1, Len(s)) = p

\* The text p stands in s at position k.
At(s, k, p) == k >= 1 /\ k + Len(p) - 1 <= Len(s) /\ SubSeq(s, k, k + Len(p) - 1) = p

\* The least position >= from where p stands in s; 0 when there is none (str.find + 1).
Find(s, p, from) ==
    IF \E k \in from..Len(s) : At(s, k, p)
    THEN CHOOSE k \in from..Len(s) : At(s, k, p) /\ \A j \in from..(k - 1) : ~At(s, j, p)
    ELSE 0

\* The least position >= from holding one of the characters cs; Len(s) + 1 when none.
FindAny(s, cs, from) ==
    IF \E k \in from..Len(s) : CharAt(s, k) \in cs
    THEN CHOOSE k \in from..Len(s) :
            CharAt(s, k) \in cs /\ \A j \in from..(k - 1) : CharAt(s, j) \notin cs
    ELSE Len(s) + 1

\* The greatest position holding c; 0 when none (str.rfind + 1).
FindLast(s, c) ==
    IF \E k \in 1..Len(s) : CharAt(s, k) = c
    THEN CHOOSE k \in 1..Len(s) :
            CharAt(s, k) = c /\ \A j \in (k + 1)..Len(s) : CharAt(s, j) # c
    ELSE 0

Min(S) == CHOOSE x \in S : \A y \in S : x <= y

Max(S) == CHOOSE x \in S : \A y \in S : x >= y

RECURSIVE Join(_, _)
\* sep.join(parts)
Join(parts, sep) ==
    IF parts = <<>> THEN ""
    ELSE IF Len(parts) = 1 THEN parts[1]
    ELSE parts[1] \o sep \o Join(Tail(parts), sep)

RECURSIVE ConcatRange(_, _, _)
\* parts[lo] \o ... \o parts[hi], by halves
ConcatRange(parts, lo, hi) ==
    IF lo > hi THEN ""
    ELSE IF lo = hi THEN parts[lo]
    ELSE ConcatRange(parts, lo, (lo + hi) \div 2) \o ConcatRange(parts, (lo + hi) \div 2 + 1, hi)

\* ''.join(parts)
Concat(parts) == ConcatRange(parts, 1, Len(parts))

Letters ==
    {"a","b","c","d","e","f","g","h","i","j","k","l","m","n","o","p","q","r","s","t",
     "u","v","w","x","y","z","A","B","C","D","E","F","G","H","I","J","K","L","M","N",
     "O","P","Q","R","S","T","U","V","W","X","Y","Z"}

Digits == {"0","1","2","3","4","5","6","7","8","9"}

(***************************************************************************)
(* urllib.parse.urlparse, as far as the program uses it: the scheme is cut *)
(* at the first ':' when only scheme characters precede it, the host after *)
(* "//" runs to the next '/', '?' or '#', then the fragment and the query  *)
(* are cut off; what remains is the path.                                  *)
(***************************************************************************)
UrlAfterScheme(url) ==
    LET c == Find(url, ":", 1)
        scheme_ok == /\ c > 1
                     /\ CharAt(url, 1) \in Letters
                     /\ \A k \in 1..(c - 1) : CharAt(url, k) \in Letters \cup Digits \cup {"+", "-", "."}
    IN  IF scheme_ok THEN Drop(url, c) ELSE url

\* The netloc of what follows the scheme
NetlocOf(r) == IF StartsWith(r, "//") THEN SubSeq(r, 3, FindAny(r, {"/", "?", "#"}, 3) - 1) ELSE ""

\* What follows the netloc
AfterNetloc(r) == IF StartsWith(r, "//") THEN Drop(r, FindAny(r, {"/", "?", "#"}, 3) - 1) ELSE r

\* s up to the first c
CutAt(s, c) == SubSeq(s, 1, FindAny(s, {c}, 1) - 1)

\* urlparse(url).netloc
UrlNetloc(url) == NetlocOf(UrlAfterScheme(url))

\* urlparse(url).path
UrlPath(url) == CutAt(CutAt(AfterNetloc(UrlAfterScheme(url)), "#"), "?")

(***************************************************************************)
(* export_to_csv: the file name of a page's record.                        *)
(***************************************************************************)
\* url_path.split('/')[-1]
LastSegment(path) == Drop(path, FindLast(path, "/"))

\* line 313: Handle URLs without extension
WithHtml(filename) == IF ~EndsWith(filename, ".html") THEN filename \o ".html" ELSE filename

\* lines 309-315: url_path.split('/')[-1] or 'index', then the suffix
DerivedFilename(url) == WithHtml(IF LastSegment(UrlPath(url)) = "" THEN "index"
                                 ELSE LastSegment(UrlPath(url)))

OutputFilename(url) == "seo_results_" \o DerivedFilename(url) \o ".csv"

(***************************************************************************)
(* Python values as the program holds them: a str, an int, and the NaN     *)
(* pandas puts in an empty cell.  Absent marks a key a dict does not hold. *)
(***************************************************************************)
Str(s) == [t |-> "str", s |-> s, n |-> 0]

PyInt(n) == [t |-> "int", s |-> "", n |-> n]

NaN == [t |-> "nan", s |-> "", n |-> 0]

Absent == [t |-> "absent", s |-> "", n |-> 0]

\* str(value), as csv.writer and len(str(...)) apply it
PyStr(v) ==
    CASE v.t = "str" -> v.s
      [] v.t = "int" -> ToString(v.n)
      [] v.t = "nan" -> "nan"
      [] OTHER -> ""

\* dict.get(key, default) on a record whose missing keys hold Absent
Get(v, default) == IF v = Absent THEN default ELSE v

\* bool(value): the truth value Python gives it
Truthy(v) ==
    CASE v.t = "str" -> v.s # ""
      [] v.t = "int" -> v.n # 0
      [] OTHER -> FALSE

(***************************************************************************)
(* csv.writer (QUOTE_MINIMAL): one record of the file per row.             *)
(***************************************************************************)
\* every quote of the field doubled
DoubleQuotes(s) ==
    Concat([k \in 1..Len(s) |-> IF CharAt(s, k) = "\"" THEN "\"\"" ELSE CharAt(s, k)])

CsvField(s) ==
    IF FindAny(s, {",", "\"", "\n", "\r"}, 1) <= Len(s)
    THEN "\"" \o DoubleQuotes(s) \o "\""
    ELSE s

\* writer.writerow(fields)
CsvWriteRow(fields) == Join([k \in 1..Len(fields) |-> CsvField(fields[k])], ",")

(***************************************************************************)
(* pandas.read_csv: the tokenizer, the NA filter and the column typing.    *)
(***************************************************************************)
\* The quotes of line in from..to.
QuotesIn(line, from, to) == {j \in from..to : CharAt(line, j) = "\""}

\* The quote closing the quoted field opened at k: the first quote after an
\* even number of quotes that no quote follows; Len(line) + 1 when none.
QuoteEnd(line, k) ==
    LET ends == {j \in (k + 1)..Len(line) :
                    /\ CharAt(line, j) = "\""
                    /\ Cardinality(QuotesIn(line, k + 1, j - 1)) % 2 = 0
                    /\ CharAt(line, j + 1) # "\""}
    IN  IF ends = {} THEN Len(line) + 1 ELSE Min(ends)

\* The text between the quotes at k and e, each doubled quote read as one.
Unquoted(line, k, e) ==
    Concat([m \in 1..(e - k - 1) |->
        IF CharAt(line, k + m) = "\"" /\ Cardinality(QuotesIn(line, k + 1, k + m)) % 2 = 1
        THEN "" ELSE CharAt(line, k + m)])

RECURSIVE CsvSplit(_, _, _)
\* The fields of one record from the field that starts at k on.
CsvSplit(line, k, acc) ==
    LET quoted == CharAt(line, k) = "\""
        e      == IF quoted THEN QuoteEnd(line, k) ELSE k - 1
        c      == FindAny(line, {","}, e + 1)
        field  == (IF quoted THEN Unquoted(line, k, e) ELSE "") \o SubSeq(line, e + 1, c - 1)
    IN  IF c > Len(line) THEN Append(acc, field)
        ELSE CsvSplit(line, c + 1, Append(acc, field))

CsvReadRow(line) == CsvSplit(line, 1, <<>>)

\* The cell texts read_csv takes for missing (its default na_values).
NaValues ==
    {"", "#N/A", "#N/A N/A", "#NA", "-1.#IND", "-1.#QNAN", "-NaN", "-nan", "1.#IND",
     "1.#QNAN", "<NA>", "N/A", "NA", "NULL", "NaN", "None", "n/a", "nan", "null"}

IsIntText(s) == s # "" /\ \A k \in 1..Len(s) : CharAt(s, k) \in Digits

DigitValue(c) == CHOOSE d \in 0..9 : ToString(d) = c

RECURSIVE ParseInt(_, _)
ParseInt(s, acc) ==
    IF s = "" THEN acc ELSE ParseInt(Tail(s), 10 * acc + DigitValue(Head(s)))

\* One column of the frame: NA cells become NaN; the column is numeric
\* when every other cell is a number, else its cells stay text.
PandasColumn(cells) ==
    LET numeric == \A k \in 1..Len(cells) : cells[k] \in NaValues \/ IsIntText(cells[k])
    IN  [k \in 1..Len(cells) |->
            IF cells[k] \in NaValues THEN NaN
            ELSE IF numeric THEN PyInt(ParseInt(cells[k], 0))
            ELSE Str(cells[k])]

\* The position of a column in the header; 0 when the header lacks it.
ColumnIndex(header, name) ==
    IF \E k \in 1..Len(header) : header[k] = name
    THEN CHOOSE k \in 1..Len(header) : header[k] = name
    ELSE 0

\* A cell of a row, missing (NA) when the row is short.
CellText(row, k) == IF k <= Len(row) THEN row[k] ELSE ""

\* pd.read_csv(file) cut down to the Metric and Value columns the
\* aggregator reads: ok is FALSE when read_csv or the column lookup raises.
ReadCsv(lines) ==
    IF lines = <<>> THEN [ok |-> FALSE, rows |-> <<>>]
    ELSE LET header == CsvReadRow(lines[1])
             body   == [k \in 1..(Len(lines) - 1) |-> CsvReadRow(lines[k + 1])]
             mi     == ColumnIndex(header, "Metric")
             vi     == ColumnIndex(header, "Value")
             mcol   == PandasColumn([k \in 1..Len(body) |-> CellText(body[k], mi)])
             vcol   == PandasColumn([k \in 1..Len(body) |-> CellText(body[k], vi)])
         IN  IF mi = 0 \/ vi = 0 THEN [ok |-> FALSE, rows |-> <<>>]
             ELSE [ok |-> TRUE,
                   rows |-> [k \in 1..Len(body) |-> [metric |-> mcol[k], value |-> vcol[k]]]]

(***************************************************************************)
(* Regular expressions of the extractors, matched as re matches them.      *)
(***************************************************************************)
Quotes == {"\"", "'"}

\* No character of cs stands in s[from..to].
NoneOf(s, cs, from, to) == \A k \in from..to : CharAt(s, k) \notin cs

\* (.*?)["'] read from position k: the position of the closing quote, the
\* first quote with no line break before it; 0 when there is none.
ClosingQuote(s, k) ==
    LET q == FindAny(s, Quotes, k)
    IN  IF q <= Len(s) /\ NoneOf(s, {"\n"}, k, q - 1) THEN q ELSE 0

\* re.search(name=["'](.*?)["'], text): the value of the first match.
\* The places of text where pat, a quote and a closing quote stand
AttrHits(text, pat) ==
    {a \in 1..Len(text) :
        /\ At(text, a, pat)
        /\ CharAt(text, a + Len(pat)) \in Quotes
        /\ ClosingQuote(text, a + Len(pat) + 1) > 0}

\* The match whose value starts at v
AttrFrom(text, v) == [found |-> TRUE, value |-> SubSeq(text, v, ClosingQuote(text, v) - 1)]

AttrFirst(text, pat, hits) ==
    IF hits = {} THEN [found |-> FALSE, value |-> ""]
    ELSE AttrFrom(text, Min(hits) + Len(pat) + 1)

AttrSearch(text, name) == AttrFirst(text, name \o "=", AttrHits(text, name \o "="))

(***************************************************************************)
(* json.loads on the texts of the model: objects, arrays, strings without  *)
(* escapes, integers and the three literals.  A value is                   *)
(* [k: kind, s: text, keys: member names, vals: members or elements].      *)
(***************************************************************************)
JsonWs == {" ", "\n", "\t", "\r"}

JsonFail == [ok |-> FALSE, val |-> [k |-> "none", s |-> "", keys |-> <<>>, vals |-> <<>>], next |-> 0]

JsonOk(kind, text, keys, vals, next) ==
    [ok |-> TRUE, val |-> [k |-> kind, s |-> text, keys |-> keys, vals |-> vals], next |-> next]

SkipWs(s, k) ==
    IF \E j \in k..Len(s) : CharAt(s, j) \notin JsonWs
    THEN CHOOSE j \in k..Len(s) :
            CharAt(s, j) \notin JsonWs /\ \A h \in k..(j - 1) : CharAt(s, h) \in JsonWs
    ELSE Len(s) + 1

\* A string whose opening quote stands at k.
JsonString(s, k) ==
    LET q == Find(s, "\"", k + 1)
    IN  IF CharAt(s, k) = "\"" /\ q > 0 /\ NoneOf(s, {"\\", "\n", "\t", "\r"}, k + 1, q - 1)
        THEN JsonOk("str", SubSeq(s, k + 1, q - 1), <<>>, <<>>, q + 1)
        ELSE JsonFail

\* An integer whose first character stands at k.
JsonNumber(s, k) ==
    LET d == IF CharAt(s, k) = "-" THEN k + 1 ELSE k
        e == IF \E j \in d..Len(s) : CharAt(s, j) \notin Digits
             THEN Min({j \in d..Len(s) : CharAt(s, j) \notin Digits})
             ELSE Len(s) + 1
    IN  IF e > d /\ (CharAt(s, d) # "0" \/ e = d + 1)
        THEN JsonOk("num", SubSeq(s, k, e - 1), <<>>, <<>>, e)
        ELSE JsonFail

RECURSIVE JsonValue(_, _)
RECURSIVE JsonElements(_, _, _)
RECURSIVE JsonMembers(_, _, _, _)

\* The value that starts at or after k, white space skipped.
JsonValue(s, k0) ==
    LET k == SkipWs(s, k0)
        c == CharAt(s, k)
    IN  CASE c = "{" ->
                IF CharAt(s, SkipWs(s, k + 1)) = "}"
                THEN JsonOk("obj", "", <<>>, <<>>, SkipWs(s, k + 1) + 1)
                ELSE JsonMembers(s, SkipWs(s, k + 1), <<>>, <<>>)
          [] c = "[" ->
                IF CharAt(s, SkipWs(s, k + 1)) = "]"
                THEN JsonOk("arr", "", <<>>, <<>>, SkipWs(s, k + 1) + 1)
                ELSE JsonElements(s, k + 1, <<>>)
          [] c = "\"" -> JsonString(s, k)
          [] c \in Digits \cup {"-"} -> JsonNumber(s, k)
          [] At(s, k, "true") -> JsonOk("lit", "true", <<>>, <<>>, k + 4)
          [] At(s, k, "false") -> JsonOk("lit", "false", <<>>, <<>>, k + 5)
          [] At(s, k, "null") -> JsonOk("lit", "null", <<>>, <<>>, k + 4)
          [] OTHER -> JsonFail

\* The elements of an array from position k on, acc those read so far.
JsonElements(s, k, acc) ==
    LET v == JsonValue(s, k)
        e == SkipWs(s, v.next)
    IN  IF ~v.ok THEN JsonFail
        ELSE IF CharAt(s, e) = "," THEN JsonElements(s, e + 1, Append(acc, v.val))
        ELSE IF CharAt(s, e) = "]" THEN JsonOk("arr", "", <<>>, Append(acc, v.val), e + 1)
        ELSE JsonFail

\* The members of an object from the key at position k on.
JsonMembers(s, k, keys, vals) ==
    LET key == JsonString(s, k)
        c   == SkipWs(s, key.next)
        v   == JsonValue(s, c + 1)
        e   == SkipWs(s, v.next)
    IN  IF ~key.ok \/ CharAt(s, c) # ":" THEN JsonFail
        ELSE IF ~v.ok THEN JsonFail
        ELSE IF CharAt(s, e) = ","
             THEN JsonMembers(s, SkipWs(s, e + 1), Append(keys, key.val.s), Append(vals, v.val))
        ELSE IF CharAt(s, e) = "}"
             THEN JsonOk("obj", "", Append(keys, key.val.s), Append(vals, v.val), e + 1)
        ELSE JsonFail

\* json.loads(text): ok is FALSE where it raises JSONDecodeError.
JsonLoads(text) ==
    LET v == JsonValue(text, 1)
    IN  IF v.ok /\ SkipWs(text, v.next) > Len(text) THEN v ELSE JsonFail

(***************************************************************************)
(* extract_schema_markup                                                   *)
(***************************************************************************)
\* <script[^>]*type=["'](application/ld\+json)["'][^>]*> with "<script" at p:
\* the position of the '>' closing the tag; 0 when the tag does not match.
SchemaTagEnd(html, p) ==
    LET g == FindAny(html, {">"}, p + 7)
    IN  IF /\ At(html, p, "<script")
           /\ g <= Len(html)
           /\ \E a \in (p + 7)..(g - 1) :
                /\ At(html, a, "type=")
                /\ CharAt(html, a + 5) \in Quotes
                /\ At(html, a + 6, "application/ld+json")
                /\ CharAt(html, a + 25) \in Quotes
                /\ a + 25 < g
        THEN g ELSE 0

\* The whole pattern matches with "<script" at p: the body (.*?) runs to the
\* first </script> after the tag.
SchemaMatchAt(html, p) ==
    SchemaTagEnd(html, p) > 0 /\ Find(html, "</script>", SchemaTagEnd(html, p) + 1) > 0

RECURSIVE SchemaBodies(_, _)
\* finditer: the bodies of the matches from position from on, left to right.
SchemaBodies(html, from) ==
    LET starts == {p \in from..Len(html) : SchemaMatchAt(html, p)}
    IN  IF starts = {} THEN <<>>
        ELSE LET p == Min(starts)
                 g == SchemaTagEnd(html, p)
                 e == Find(html, "</script>", g + 1)
             IN  <<SubSeq(html, g + 1, e - 1)>> \o SchemaBodies(html, e + 9)

RECURSIVE KeepParsed(_)
\* The bodies json.loads accepts, parsed; the others are skipped (continue).
KeepParsed(bodies) ==
    IF bodies = <<>> THEN <<>>
    ELSE LET v == JsonLoads(Head(bodies))
         IN  (IF v.ok THEN <<v.val>> ELSE <<>>) \o KeepParsed(Tail(bodies))

ExtractSchemaMarkup(html) == KeepParsed(SchemaBodies(html, 1))

(***************************************************************************)
(* re.IGNORECASE: the patterns are matched on the lower-cased text.        *)
(***************************************************************************)
UpperCase == "ABCDEFGHIJKLMNOPQRSTUVWXYZ"

LowerCase == "abcdefghijklmnopqrstuvwxyz"

LowerChar(c) == IF Find(UpperCase, c, 1) > 0 THEN CharAt(LowerCase, Find(UpperCase, c, 1)) ELSE c

\* str.lower
Lower(s) == Concat([k \in 1..Len(s) |-> LowerChar(CharAt(s, k))])

(***************************************************************************)
(* count_headings and extract_heading_content (re.MULTILINE)               *)
(***************************************************************************)
\* ^ matches at position p
LineStart(md, p) == p = 1 \/ CharAt(md, p - 1) = "\n"

\* ^<marker> [^#] : the number of matches
CountMarked(md, marker) ==
    Cardinality({p \in 1..Len(md) :
        /\ LineStart(md, p)
        /\ At(md, p, marker \o " ")
        /\ CharAt(md, p + Len(marker) + 1) \notin {"", "#"}})

CountHeadings(md) == <<CountMarked(md, "#"), CountMarked(md, "##"), CountMarked(md, "###")>>

RECURSIVE MarkedContent(_, _, _)
\* ^<marker> ([^\n]+) : the captured texts from position from on
MarkedContent(md, marker, from) ==
    LET starts == {p \in from..Len(md) :
                      /\ LineStart(md, p)
                      /\ At(md, p, marker \o " ")
                      /\ CharAt(md, p + Len(marker) + 1) \notin {"", "\n"}}
    IN  IF starts = {} THEN <<>>
        ELSE LET p == Min(starts)
                 b == p + Len(marker) + 1
                 e == FindAny(md, {"\n"}, b)
             IN  <<SubSeq(md, b, e - 1)>> \o MarkedContent(md, marker, e)

ExtractHeadingContent(md) ==
    <<Join(MarkedContent(md, "#", 1), "; "),
      Join(MarkedContent(md, "##", 1), "; "),
      Join(MarkedContent(md, "###", 1), "; ")>>

\* extract_links_from_html and extract_images_from_html share the shape
\*   <tag[^>]+key=["'](.*?)["']([^>]*)>
\* The greedy [^>]+ ends at the last key= of the tag that lets the rest match;
\* the value runs to the first quote, the attributes to the next '>'.

\* The positions of key= at which the pattern matches with the tag at p.
TagKeyPositions(html, low, tag, key, p) ==
    IF ~At(low, p, tag) THEN {}
    ELSE LET b  == p + Len(tag)
             g0 == FindAny(html, {">"}, b)
         IN  {a \in (b + 1)..(g0 - 1) :
                /\ At(low, a, key \o "=")
                /\ CharAt(html, a + Len(key) + 1) \in Quotes
                /\ ClosingQuote(html, a + Len(key) + 2) > 0
                /\ FindAny(html, {">"}, ClosingQuote(html, a + Len(key) + 2) + 1) <= Len(html)}

RECURSIVE TagMatches(_, _, _, _, _)
\* finditer: [value: group 1, attrs: group 2, whole: group 0] of each match
TagMatches(html, low, tag, key, from) ==
    LET starts == {p \in from..Len(html) : TagKeyPositions(html, low, tag, key, p) # {}}
    IN  IF starts = {} THEN <<>>
        ELSE LET p == Min(starts)
                 a == Max(TagKeyPositions(html, low, tag, key, p))
                 v == a + Len(key) + 2
                 q == ClosingQuote(html, v)
                 g == FindAny(html, {">"}, q + 1)
             IN  <<[value |-> SubSeq(html, v, q - 1),
                    attrs |-> SubSeq(html, q + 1, g - 1),
                    whole |-> SubSeq(html, p, g)]>>
                 \o TagMatches(html, low, tag, key, g + 1)

RECURSIVE StripTags(_)
\* re.sub(r'<[^>]+>', '', text)
StripTags(text) ==
    LET starts == {p \in 1..Len(text) :
                      /\ CharAt(text, p) = "<"
                      /\ CharAt(text, p + 1) \notin {"", ">"}
                      /\ FindAny(text, {">"}, p + 1) <= Len(text)}
    IN  IF starts = {} THEN text
        ELSE LET p == Min(starts)
             IN  SubSeq(text, 1, p - 1) \o StripTags(Drop(text, FindAny(text, {">"}, p + 1)))

\* The filter of line 57 without 'mailto:'
SkippedLinkKeepsMailto(link) ==
    link = "" \/ StartsWith(link, "#") \/ StartsWith(link, "javascript:")

SkippedLink(link) ==
    link = "" \/ StartsWith(link, "#") \/ StartsWith(link, "javascript:") \/ StartsWith(link, "mailto:")

RECURSIVE LinksOf(_)
LinksOf(matches) ==
    IF matches = <<>> THEN <<>>
    ELSE LET m == Head(matches)
         IN  (IF SkippedLink(m.value) THEN <<>>
              ELSE <<[url  |-> m.value,
                      rel  |-> AttrSearch(m.attrs, "rel").value,
                      text |-> StripTags(m.whole)]>>)
             \o LinksOf(Tail(matches))

ExtractLinksFromHtml(html) == LinksOf(TagMatches(html, Lower(html), "<a", "href", 1))

\* urlparse(url).scheme; "" when the URL names none
UrlScheme(url) == IF UrlAfterScheme(url) = url THEN "" ELSE Lower(SubSeq(url, 1, Find(url, ":", 1) - 1))

\* urljoin(base, url) for a base with scheme and host and a reference
\* without "." and ".." segments.
UrlJoinParts(base, url, scheme, origin, bpath) ==
    IF url = "" THEN base
    ELSE IF UrlScheme(url) # "" THEN url
    ELSE IF StartsWith(url, "//") THEN scheme \o ":" \o url
    ELSE IF StartsWith(url, "/") THEN origin \o url
    ELSE IF UrlPath(url) = "" THEN origin \o bpath \o url
    ELSE origin \o (IF bpath = "" THEN "/" ELSE SubSeq(bpath, 1, FindLast(bpath, "/"))) \o url

UrlJoin(base, url) ==
    UrlJoinParts(base, url, UrlScheme(base), UrlScheme(base) \o "://" \o UrlNetloc(base),
                 UrlPath(base))

\* width_match.group(1) if width_match else None
GroupOrNone(match) == IF match.found THEN Str(match.value) ELSE Absent

AttrOrNone(attrs, name) == GroupOrNone(AttrSearch(attrs, name))

\* lines 88-96: the dictionary of one image, alt the text of its alt attribute
ImageEntry(src, alt, width, height, srcset) ==
    [src |-> src, alt |-> alt, has_alt |-> alt # "", width |-> width, height |-> height,
     srcset |-> srcset]

ImageOf(m, base_url) ==
    ImageEntry(UrlJoin(base_url, m.value), AttrSearch(m.attrs, "alt").value,
               AttrOrNone(m.attrs, "width"), AttrOrNone(m.attrs, "height"),
               AttrSearch(m.attrs, "srcset").value)

ExtractImagesFromHtml(html, base_url) ==
    LET ms == TagMatches(html, Lower(html), "<img", "src", 1)
    IN  [k \in 1..Len(ms) |-> ImageOf(ms[k], base_url)]

\* is_internal_link
IsInternalLink(base_url, link) == UrlNetloc(link) = "" \/ UrlNetloc(base_url) = UrlNetloc(link)

(***************************************************************************)
(* extract_hreflang_tags and extract_canonical_tag.  Their patterns chain  *)
(* several attributes inside one tag; a greedy [^>]* takes the last place  *)
(* that lets the rest match, a lazy value the first.                       *)
(***************************************************************************)
\* [^>]*key=["'] read from position from: the positions of key
AttrStarts(html, low, from, key) ==
    {a \in from..Len(html) :
        /\ NoneOf(html, {">"}, from, a - 1)
        /\ At(low, a, key \o "=")
        /\ CharAt(html, a + Len(key) + 1) \in Quotes}

\* The closing quotes a lazy value that starts at v may end at.
LazyQuotes(html, v) ==
    {q \in v..Len(html) : CharAt(html, q) \in Quotes /\ NoneOf(html, {"\n"}, v, q - 1)}

\* key=["'](word)["'] stands at a
WordAttrAt(html, low, a, key, word) ==
    /\ At(low, a + Len(key) + 2, word)
    /\ CharAt(html, a + Len(key) + 2 + Len(word)) \in Quotes

HreflangHref(html, low, q2) ==
    {a3 \in AttrStarts(html, low, q2 + 1, "href") : ClosingQuote(html, a3 + 6) > 0}

HreflangQuote(html, low, a2) ==
    {q2 \in LazyQuotes(html, a2 + 10) : HreflangHref(html, low, q2) # {}}

HreflangLang(html, low, from) ==
    {a2 \in AttrStarts(html, low, from, "hreflang") : HreflangQuote(html, low, a2) # {}}

HreflangRel(html, low, p) ==
    IF ~At(low, p, "<link") THEN {}
    ELSE {a1 \in AttrStarts(html, low, p + 5, "rel") :
            /\ WordAttrAt(html, low, a1, "rel", "alternate")
            /\ HreflangLang(html, low, a1 + 15) # {}}

RECURSIVE HreflangMatches(_, _, _)
HreflangMatches(html, low, from) ==
    LET starts == {p \in from..Len(html) : HreflangRel(html, low, p) # {}}
    IN  IF starts = {} THEN <<>>
        ELSE LET p  == Min(starts)
                 a1 == Max(HreflangRel(html, low, p))
                 a2 == Max(HreflangLang(html, low, a1 + 15))
                 q2 == Min(HreflangQuote(html, low, a2))
                 a3 == Max(HreflangHref(html, low, q2))
                 q3 == ClosingQuote(html, a3 + 6)
             IN  <<[language |-> SubSeq(html, a2 + 10, q2 - 1),
                    url      |-> SubSeq(html, a3 + 6, q3 - 1)]>>
                 \o HreflangMatches(html, low, q3 + 1)

ExtractHreflangTags(html) == HreflangMatches(html, Lower(html), 1)

\* First pattern: rel="canonical" before href.
CanonRelHref(html, low, from) ==
    {a3 \in AttrStarts(html, low, from, "href") : ClosingQuote(html, a3 + 6) > 0}

CanonRel(html, low, p) ==
    IF ~At(low, p, "<link") THEN {}
    ELSE {a1 \in AttrStarts(html, low, p + 5, "rel") :
            /\ WordAttrAt(html, low, a1, "rel", "canonical")
            /\ CanonRelHref(html, low, a1 + 15) # {}}

RECURSIVE CanonMatches1(_, _, _)
\* The groups <<group 1, group 2>> of the matches of the first pattern.
CanonMatches1(html, low, from) ==
    LET starts == {p \in from..Len(html) : CanonRel(html, low, p) # {}}
    IN  IF starts = {} THEN <<>>
        ELSE LET p  == Min(starts)
                 a1 == Max(CanonRel(html, low, p))
                 a3 == Max(CanonRelHref(html, low, a1 + 15))
                 q3 == ClosingQuote(html, a3 + 6)
             IN  <<<<SubSeq(html, a1 + 5, a1 + 13), SubSeq(html, a3 + 6, q3 - 1)>>>>
                 \o CanonMatches1(html, low, q3 + 1)

\* Second pattern: href before rel="canonical".
CanonHrefRel(html, low, q) ==
    {a3 \in AttrStarts(html, low, q + 1, "rel") : WordAttrAt(html, low, a3, "rel", "canonical")}

CanonHrefQuote(html, low, a1) ==
    {q \in LazyQuotes(html, a1 + 6) : CanonHrefRel(html, low, q) # {}}

CanonHref(html, low, p) ==
    IF ~At(low, p, "<link") THEN {}
    ELSE {a1 \in AttrStarts(html, low, p + 5, "href") : CanonHrefQuote(html, low, a1) # {}}

RECURSIVE CanonMatches2(_, _, _)
CanonMatches2(html, low, from) ==
    LET starts == {p \in from..Len(html) : CanonHref(html, low, p) # {}}
    IN  IF starts = {} THEN <<>>
        ELSE LET p  == Min(starts)
                 a1 == Max(CanonHref(html, low, p))
                 q  == Min(CanonHrefQuote(html, low, a1))
                 a3 == Max(CanonHrefRel(html, low, q))
             IN  <<<<SubSeq(html, a1 + 6, q - 1), SubSeq(html, a3 + 5, a3 + 13)>>>>
                 \o CanonMatches2(html, low, a3 + 15)

\* The lenient scan of the head section; Absent when it finds nothing.
CanonFromHead(html) ==
    LET low   == Lower(html)
        heads == {p \in 1..Len(html) :
                    /\ At(low, p, "<head")
                    /\ FindAny(html, {">"}, p + 5) <= Len(html)
                    /\ Find(low, "</head>", FindAny(html, {">"}, p + 5) + 1) > 0}
        hp    == Min(heads)
        hg    == FindAny(html, {">"}, hp + 5)
        head  == SubSeq(html, hg + 1, Find(low, "</head>", hg + 1) - 1)
        hlow  == Lower(head)
        tags  == {p \in 1..Len(head) :
                    /\ At(hlow, p, "<link")
                    /\ \E c \in (p + 5)..Len(head) :
                          /\ At(hlow, c, "canonical")
                          /\ c + 9 <= FindAny(head, {">"}, p + 5)
                          /\ FindAny(head, {">"}, p + 5) <= Len(head)}
        tp    == Min(tags)
        tag   == SubSeq(head, tp, FindAny(head, {">"}, tp + 5))
    IN  IF heads = {} THEN Absent
        ELSE IF tags = {} THEN Absent
        ELSE IF AttrSearch(tag, "href").found THEN Str(AttrSearch(tag, "href").value)
        ELSE Absent

\* extract_canonical_tag: the first match of either pattern with a group
\* equal to 'canonical' returns the other group; else the head scan.
CanonGroup(m) == IF m[1] = "canonical" THEN Str(m[2]) ELSE Str(m[1])

CanonPick(html, ms, hits) == IF hits = {} THEN CanonFromHead(html) ELSE CanonGroup(ms[Min(hits)])

CanonHits(ms) == {k \in 1..Len(ms) : ms[k][1] = "canonical" \/ ms[k][2] = "canonical"}

CanonFirst(html, ms) == CanonPick(html, ms, CanonHits(ms))

CanonScan(html, low) == CanonFirst(html, CanonMatches1(html, low, 1) \o CanonMatches2(html, low, 1))

ExtractCanonicalTag(html) == CanonScan(html, Lower(html))

(***************************************************************************)
(* analyze_page.  A reply of the scraping API is                           *)
(*   [raised: requests.post raised, status_code, success, metadata,        *)
(*    markdown, html, elapsed: whole seconds]                              *)
(* and metadata a record whose missing keys hold Absent.                   *)
(***************************************************************************)
\* The test of lines 208 and 213 without the success flag of line 213
CollaboratorFailedStatusOnly(resp) == resp.raised \/ resp.status_code # 200

\* lines 199-215: the call raised, the status is not 200 or success is false
CollaboratorFailed(resp) == resp.raised \/ resp.status_code # 200 \/ ~resp.success

\* dict.get('@type', 'Unknown') on a parsed block: the last member named @type
SchemaType(v) ==
    LET hits == {k \in 1..Len(v.keys) : v.keys[k] = "@type"}
    IN  IF hits = {} THEN [k |-> "str", s |-> "Unknown", keys |-> <<>>, vals |-> <<>>]
        ELSE v.vals[Max(hits)]

\* line 272, the detail of Schema Markup: s.get raises on a block that is
\* no object and join raises on a type that is no string (ok is FALSE).
SchemaDetail(schema_data) ==
    IF schema_data = <<>> THEN [ok |-> TRUE, s |-> "Types: None found"]
    ELSE IF \E k \in 1..Len(schema_data) : schema_data[k].k # "obj"
         THEN [ok |-> FALSE, s |-> "AttributeError"]
    ELSE IF \E k \in 1..Len(schema_data) : SchemaType(schema_data[k]).k # "str"
         THEN [ok |-> FALSE, s |-> "TypeError"]
    ELSE [ok |-> TRUE,
          s |-> "Types: " \o Join([k \in 1..Len(schema_data) |-> SchemaType(schema_data[k]).s], ", ")]

\* datetime.now().strftime("%Y-%m-%d %H:%M:%S") of the clock reading t
\* (seconds after 2026-01-01 00:00:00, below one minute)
FormatTime(t) == "2026-01-01 00:00:" \o (IF t < 10 THEN "0" ELSE "") \o ToString(t)

\* lines 252-260: the line of one image in Images with Details
ImageDetail(img) ==
    img.src
    \o (IF Truthy(img.width) /\ Truthy(img.height)
        THEN " (" \o img.width.s \o "x" \o img.height.s \o ")" ELSE "")
    \o (IF img.alt # "" THEN " [alt: " \o img.alt \o "]" ELSE "")
    \o (IF img.srcset # "" THEN " [srcset available]" ELSE "")

Row(metric, value, details) == [metric |-> metric, value |-> value, details |-> details]

\* lines 263-290: the analysis dictionary, in insertion order, from what
\* lines 217-249 extracted; canonical is canonical_url of lines 233-238.
AnalysisRows(url, resp, t, links, images, heads, schema, canonical, hreflang, counts) ==
    LET md        == resp.metadata
        Internal(l) == IsInternalLink(url, l.url)
        External(l) == ~IsInternalLink(url, l.url)
        Nofollow(l) == Find(l.rel, "nofollow", 1) > 0
        NoAlt(img)  == ~img.has_alt
        internal  == SelectSeq(links, Internal)
        external  == SelectSeq(links, External)
        nofollow  == SelectSeq(links, Nofollow)
        missing   == SelectSeq(images, NoAlt)
        UrlsOf(ls) == Join([k \in 1..Len(ls) |-> ls[k].url], "; ")
    IN  << Row("Timestamp", Str(FormatTime(t)), ""),
           Row("URL", Str(url), ""),
           Row("Status Code", Get(md.statusCode, PyInt(resp.status_code)), ""),
           Row("Load Time", Str(ToString(resp.elapsed) \o ".0 seconds"), ""),
           Row("Title", Get(md.title, Str("")),
               "Length: " \o ToString(Len(Get(md.title, Str("")).s)) \o " chars"),
           Row("Meta Description", Get(md.description, Str("")),
               "Length: " \o ToString(Len(Get(md.description, Str("")).s)) \o " chars"),
           Row("Meta Keywords", Get(md.keywords, Str("")), "Comma-separated list of keywords"),
           Row("Canonical URL", IF Truthy(canonical) THEN canonical ELSE Str("Not found"),
               "Specified canonical URL"),
           Row("Schema Markup", PyInt(Len(schema)), SchemaDetail(schema).s),
           Row("Hreflang Tags", PyInt(Len(hreflang)),
               IF hreflang = <<>> THEN "None found"
               ELSE Join([k \in 1..Len(hreflang) |->
                            hreflang[k].language \o ": " \o hreflang[k].url], "; ")),
           Row("Robots Meta", Get(md.robots, Str("Not found")), "Robots meta tag content"),
           Row("Viewport Meta", Get(md.viewport, Str("Not found")), "Viewport meta tag content"),
           Row("OG Title", Get(md.ogTitle, Str("")), "Open Graph title"),
           Row("OG Description", Get(md.ogDescription, Str("")), "Open Graph description"),
           Row("OG Image", Get(md.ogImage, Str("")), "Open Graph image URL"),
           Row("H1 Headings", PyInt(counts[1]), heads[1]),
           Row("H2 Headings", PyInt(counts[2]), heads[2]),
           Row("H3 Headings", PyInt(counts[3]), heads[3]),
           Row("Total Links", PyInt(Len(links)), "Total number of links found"),
           Row("Internal Links", PyInt(Len(internal)), UrlsOf(internal)),
           Row("External Links", PyInt(Len(external)), UrlsOf(external)),
           Row("Nofollow Links", PyInt(Len(nofollow)), UrlsOf(nofollow)),
           Row("Total Images", PyInt(Len(images)), "Total number of images found"),
           Row("Images Missing Alt", PyInt(Len(missing)),
               Join([k \in 1..Len(missing) |-> missing[k].src], "; ")),
           Row("Images with Details", PyInt(Len(images)),
               Join([k \in 1..Len(images) |-> ImageDetail(images[k])], "\n")) >>

\* lines 233-238 the other way round: the canonical of the HTML first, the
\* one of the metadata only where the HTML names none
BuildAnalysisHtmlFirst(url, resp, t) ==
    AnalysisRows(url, resp, t,
                 ExtractLinksFromHtml(resp.html),
                 ExtractImagesFromHtml(resp.html, url),
                 ExtractHeadingContent(resp.markdown),
                 ExtractSchemaMarkup(resp.html),
                 IF Truthy(ExtractCanonicalTag(resp.html)) THEN ExtractCanonicalTag(resp.html)
                 ELSE resp.metadata.canonical,
                 ExtractHreflangTags(resp.html),
                 CountHeadings(resp.markdown))

\* lines 217-249: the extractors run on the reply, then the dictionary
BuildAnalysis(url, resp, t) ==
    AnalysisRows(url, resp, t,
                 ExtractLinksFromHtml(resp.html),
                 ExtractImagesFromHtml(resp.html, url),
                 ExtractHeadingContent(resp.markdown),
                 ExtractSchemaMarkup(resp.html),
                 IF Truthy(resp.metadata.canonical) THEN resp.metadata.canonical
                 ELSE ExtractCanonicalTag(resp.html),
                 ExtractHreflangTags(resp.html),
                 CountHeadings(resp.markdown))

\* analyze_page(url): ok with the analysis, or not ok where the code prints
\* "Error analyzing page" and calls sys.exit(1) (lines 294-296).
AnalyzePage(url, resp, t) ==
    IF CollaboratorFailed(resp) THEN [ok |-> FALSE, rows |-> <<>>]
    ELSE IF ~SchemaDetail(ExtractSchemaMarkup(resp.html)).ok THEN [ok |-> FALSE, rows |-> <<>>]
    ELSE [ok |-> TRUE, rows |-> BuildAnalysis(url, resp, t)]

(***************************************************************************)
(* export_to_csv: the records of the file, header first.                   *)
(***************************************************************************)
CsvLines(rows) ==
    <<CsvWriteRow(<<"Metric", "Value", "Details">>)>>
    \o [k \in 1..Len(rows) |->
            CsvWriteRow(<<rows[k].metric, PyStr(rows[k].value), rows[k].details>>)]

\* os.path.join('results', output_filename)
OutputPath(url) == "results/" \o OutputFilename(url)

\* open(path, 'a') in place of 'w': the rows go after what the file held
WriteFileAppend(st, path, lines) ==
    [f \in DOMAIN st \cup {path} |->
        IF f = path THEN (IF path \in DOMAIN st THEN st[path] ELSE <<>>) \o lines ELSE st[f]]

\* open(path, 'w') and the rows written before the file is closed: the file
\* holds exactly these records afterwards, whatever it held before.
WriteFile(st, path, lines) ==
    [f \in DOMAIN st \cup {path} |-> IF f = path THEN lines ELSE st[f]]

(***************************************************************************)
(* compile_results.py: load_csv_files                                      *)
(***************************************************************************)
\* os.path.basename
Basename(path) == Drop(path, FindLast(path, "/"))

\* glob("results/*.csv"): the files of the directory named *.csv
CsvFiles(st) == {f \in DOMAIN st : EndsWith(f, ".csv") /\ ~StartsWith(Basename(f), ".")}

\* No file to compile from (line 20).
NoCsvFilesNever(st) == FALSE

NoCsvFiles(st) == CsvFiles(st) = {}

\* re.search(r'seo_results_(.+)\.csv', filename), else the name less ".csv"
UrlName(filename) ==
    LET Ends(p) == {e \in (p + 13)..Len(filename) :
                        At(filename, e, ".csv") /\ NoneOf(filename, {"\n"}, p + 12, e - 1)}
        starts  == {p \in 1..Len(filename) : At(filename, p, "seo_results_") /\ Ends(p) # {}}
    IN  IF starts # {}
        THEN SubSeq(filename, Min(starts) + 12, Max(Ends(Min(starts))) - 1)
        ELSE Concat([k \in 1..Len(filename) |->
                IF \E j \in (k - 3)..k : At(filename, j, ".csv") THEN "" ELSE CharAt(filename, k)])

RECURSIVE SetToSeq(_)
\* The files in the order glob lists them (an order of the file system).
SetToSeq(S) ==
    IF S = {} THEN <<>>
    ELSE LET x == CHOOSE y \in S : TRUE IN <<x>> \o SetToSeq(S \ {x})

\* dataframes[url_name] = df: a later frame of the same name replaces the earlier
DictPut(d, name, rows) ==
    IF \E k \in 1..Len(d) : d[k].name = name
    THEN [k \in 1..Len(d) |-> IF d[k].name = name THEN [name |-> name, rows |-> rows] ELSE d[k]]
    ELSE Append(d, [name |-> name, rows |-> rows])

RECURSIVE LoadFrames(_, _, _)
LoadFrames(st, files, acc) ==
    IF files = <<>> THEN acc
    ELSE LoadFrames(st, Tail(files),
                    DictPut(acc, UrlName(Basename(Head(files))), ReadCsv(st[Head(files)]).rows))

\* load_csv_files: ok is FALSE where it raises (no file, or a file read_csv
\* cannot read); frames is the dict url_name -> table, in insertion order.
LoadCsvFiles(st) ==
    IF NoCsvFiles(st) THEN [ok |-> FALSE, frames |-> <<>>]
    ELSE IF \E f \in CsvFiles(st) : ~ReadCsv(st[f]).ok THEN [ok |-> FALSE, frames |-> <<>>]
    ELSE [ok |-> TRUE, frames |-> LoadFrames(st, SetToSeq(CsvFiles(st)), <<>>)]

(***************************************************************************)
(* create_summary_sheet and create_comparison_sheet                        *)
(***************************************************************************)
\* dict(zip(df['Metric'], df['Value'])).get(name, default)
MetricGet(rows, name, default) ==
    LET hits == {k \in 1..Len(rows) : rows[k].metric = Str(name)}
    IN  IF hits = {} THEN default ELSE rows[Max(hits)].value

SummaryRow(name, rows) ==
    [URL_Name                |-> Str(name),
     URL                     |-> MetricGet(rows, "URL", Str("")),
     Title                   |-> MetricGet(rows, "Title", Str("")),
     Title_Length            |-> PyInt(Len(PyStr(MetricGet(rows, "Title", Str(""))))),
     Meta_Description_Length |-> PyInt(Len(PyStr(MetricGet(rows, "Meta Description", Str(""))))),
     Canonical_URL           |-> MetricGet(rows, "Canonical URL", Str("")),
     H1_Count                |-> MetricGet(rows, "H1 Headings", PyInt(0)),
     H2_Count                |-> MetricGet(rows, "H2 Headings", PyInt(0)),
     H3_Count                |-> MetricGet(rows, "H3 Headings", PyInt(0)),
     Total_Links             |-> MetricGet(rows, "Total Links", PyInt(0)),
     Internal_Links          |-> MetricGet(rows, "Internal Links", PyInt(0)),
     External_Links          |-> MetricGet(rows, "External Links", PyInt(0)),
     Nofollow_Links          |-> MetricGet(rows, "Nofollow Links", PyInt(0)),
     Total_Images            |-> MetricGet(rows, "Total Images", PyInt(0)),
     Images_Missing_Alt      |-> MetricGet(rows, "Images Missing Alt", PyInt(0)),
     Schema_Markup_Count     |-> MetricGet(rows, "Schema Markup", PyInt(0)),
     Hreflang_Count          |-> MetricGet(rows, "Hreflang Tags", PyInt(0)),
     Status_Code             |-> MetricGet(rows, "Status Code", Str("")),
     Load_Time               |-> MetricGet(rows, "Load Time", Str("")),
     Robots_Meta             |-> MetricGet(rows, "Robots Meta", Str("")),
     OG_Title                |-> MetricGet(rows, "OG Title", Str("")),
     OG_Description          |-> MetricGet(rows, "OG Description", Str("")),
     OG_Image                |-> MetricGet(rows, "OG Image", Str(""))]

CreateSummarySheet(frames) == [k \in 1..Len(frames) |-> SummaryRow(frames[k].name, frames[k].rows)]

\* The printable ASCII characters in code point order (the backquote left out).
Ascii ==
    " !\"#$%&'()*+,-./0123456789:;<=>?@ABCDEFGHIJKLMNOPQRSTUVWXYZ[\\]^_abcdefghijklmnopqrstuvwxyz{|}~"

\* ord(c) of a printable character, up to the constant the order ignores
CodePoint(c) == CHOOSE k \in 1..Len(Ascii) : SubSeq(Ascii, k, k) = c

\* The first place where a and b, equal up to there, differ
FirstDiff(a, b, n) ==
    CHOOSE k \in 1..n : CharAt(a, k) # CharAt(b, k) /\ SubSeq(a, 1, k - 1) = SubSeq(b, 1, k - 1)

\* a < b as Python orders str: by the first character that differs
StrLess(a, b) ==
    LET n == IF Len(a) < Len(b) THEN Len(a) ELSE Len(b)
    IN  IF SubSeq(a, 1, n) = SubSeq(b, 1, n) THEN Len(a) < Len(b)
        ELSE CodePoint(CharAt(a, FirstDiff(a, b, n))) < CodePoint(CharAt(b, FirstDiff(a, b, n)))

\* sorted_list with x put at its place: after the elements below it
Insert(x, sorted_list) ==
    LET n == Cardinality({k \in 1..Len(sorted_list) : StrLess(sorted_list[k], x)})
    IN  SubSeq(sorted_list, 1, n) \o <<x>> \o SubSeq(sorted_list, n + 1, Len(sorted_list))

RECURSIVE Sorted(_)
\* sorted(S) of a set of strings
Sorted(S) ==
    IF S = {} THEN <<>>
    ELSE LET x == CHOOSE y \in S : TRUE
         IN  Insert(x, Sorted(S \ {x}))

\* The metric names every page reports (an intersection, not the union).
CommonMetrics(frames) ==
    {m \in UNION {{frames[k].rows[j].metric.s : j \in 1..Len(frames[k].rows)} : k \in 1..Len(frames)} :
        \A k \in 1..Len(frames) : \E j \in 1..Len(frames[k].rows) : frames[k].rows[j].metric.s = m}

\* lines 84-86: all_metrics, the union of the Metric columns (names are text)
AllMetrics(frames) ==
    UNION {{frames[k].rows[j].metric.s : j \in 1..Len(frames[k].rows)} : k \in 1..Len(frames)}

\* lines 89-95: the Metric column and one column of cells per page
ComparisonRows(frames, metrics) ==
    [Metric  |-> metrics,
     columns |-> [k \in 1..Len(frames) |->
                    [name  |-> frames[k].name,
                     cells |-> [j \in 1..Len(metrics) |->
                                  MetricGet(frames[k].rows, metrics[j], Str(""))]]]]

CreateComparisonSheet(frames) == ComparisonRows(frames, Sorted(AllMetrics(frames)))

\* lines 124-125: the sheet of a page, its name cut to 31 characters and
\* the characters a sheet name may not hold replaced
SheetName(name) ==
    Concat([k \in 1..(IF Len(name) < 31 THEN Len(name) ELSE 31) |->
        IF CharAt(name, k) \in {"\\", "/", "*", "?", ":", "[", "]"} THEN "_" ELSE CharAt(name, k)])

\* The workbook compile_to_excel writes from the loaded frames.
Workbook(frames) ==
    [written    |-> TRUE,
     summary    |-> CreateSummarySheet(frames),
     comparison |-> CreateComparisonSheet(frames),
     sheets     |-> [k \in 1..Len(frames) |-> SheetName(frames[k].name)]]

(***************************************************************************)
(* The inputs of the model.                                                *)
(***************************************************************************)
\* The number of URLs of a batch file.
MaxUrls == 2

Urls == {"http://x.io/", "http://x.io/a", "http://x.io/a.html", "http://x.io/b.php"}

Modes == {"single", "batch", "full_single", "full_batch", "compile_only", "full_no_input", "no_args"}

BatchModes == {"batch", "full_batch"}

SingleModes == {"single", "full_single"}

NoMetadata ==
    [title |-> Absent, description |-> Absent, keywords |-> Absent, canonical |-> Absent,
     statusCode |-> Absent, robots |-> Absent, viewport |-> Absent, ogTitle |-> Absent,
     ogDescription |-> Absent, ogImage |-> Absent]

FullMetadata ==
    [title |-> Str("Home, \"x\""), description |-> Str("About x"), keywords |-> Str("seo,x"),
     canonical |-> Absent, statusCode |-> PyInt(200), robots |-> Str("index"),
     viewport |-> Absent, ogTitle |-> Str("NA"), ogDescription |-> Absent,
     ogImage |-> Str("http://x.io/og.png")]

Reply(status, success, metadata, markdown, html) ==
    [raised |-> FALSE, status_code |-> status, success |-> success, metadata |-> metadata,
     markdown |-> markdown, html |-> html, elapsed |-> 1]

NoResponse == Reply(0, FALSE, NoMetadata, "", "")

\* Two ld+json blocks, one an object and one that does not parse.
ObjectHtml ==
    "<script type=\"application/ld+json\">{\"@type\": \"Article\"}</script>"
    \o "<script type=\"application/ld+json\">{oops</script>"

ArrayHtml == "<script type=\"application/ld+json\">[{\"@type\": \"Thing\"}]</script>"

ScalarHtml ==
    "<script type=\"application/ld+json\">\"text\"</script>"
    \o "<script type=\"application/ld+json\">7</script>"

TypeListHtml == "<script type=\"application/ld+json\">{\"@type\": [\"A\", \"B\"]}</script>"

\* The replies the scraping API may give: requests.post raises, a status
\* other than 200, success false, and pages.
Responses ==
    { [NoResponse EXCEPT !.raised = TRUE],
      Reply(500, TRUE, NoMetadata, "", ""),
      Reply(200, FALSE, NoMetadata, "", ""),
      Reply(200, TRUE, NoMetadata, "", ""),
      Reply(200, TRUE, FullMetadata, "# One\n", ObjectHtml),
      Reply(200, TRUE, NoMetadata, "", ArrayHtml),
      Reply(200, TRUE, NoMetadata, "", ScalarHtml),
      Reply(200, TRUE, FullMetadata, "", TypeListHtml) }

\* Pages of a single-URL run: img tags with the alt attribute after src,
\* empty, missing, and before src; two images, the second with data-src.
ImageHtmls ==
    { "<img src=\"/a.png\" alt=\"Logo\">",
      "<img src=\"/a.png\" alt=\"\">",
      "<img class=\"c\" src=\"/a.png\">",
      "<img alt=\"Logo\" src=\"/a.png\">",
      "<img src=\"/a.png\" alt=\"A\" width=\"3\" height=\"4\"><img data-src=\"b.png\">" }

\* Anchors with the targets line 57 skips, with targets it keeps, and both.
LinkHtmls ==
    { "<a href=\"#top\">t</a><a href=\"javascript:void(0)\">j</a>"
        \o "<a href=\"mailto:a@b.c\">m</a><a href=\"\">e</a>",
      "<a href=\"/p\" rel=\"nofollow\">p</a><a href=\"http://y.io/\">y</a>",
      "<a href=\"#top\">t</a><a class=\"k\" href='q'>q</a><A HREF=\"mailto:a@b.c\">m</A>" }

\* Link tags naming a canonical URL: none, rel first, href first, an empty
\* href.
CanonicalHtmls ==
    { "",
      "<link rel=\"canonical\" href=\"http://x.io/c\">",
      "<head><link href=\"http://x.io/d\" rel=\"canonical\"></head>",
      "<link rel=\"canonical\" href=\"\">" }

\* metadata of the reply with the canonical key missing, empty and set
CanonicalMetadatas ==
    { NoMetadata,
      [NoMetadata EXCEPT !.canonical = Str("")],
      [NoMetadata EXCEPT !.canonical = Str("http://x.io/m")] }

\* Markdown of the reply: headings of the three levels, a heading whose text
\* starts with '#', a marker with nothing after its space.
Markdowns ==
    { "# One\n", "# a\n## Two\n## Three", "text\n### c\n#### d\n#e\n", "# #tag\n", "## \nx" }

\* The replies of the single-URL run: a page for every input above.
PageResponses ==
    {Reply(200, TRUE, NoMetadata, "", html) : html \in ImageHtmls \cup LinkHtmls}
    \cup {Reply(200, TRUE, FullMetadata, markdown, "") : markdown \in Markdowns}
    \cup {Reply(200, TRUE, metadata, "", html) :
            metadata \in CanonicalMetadatas, html \in CanonicalHtmls}

NoAnalysis == <<>>

EmptyStore == <<>>

NoComparison == [Metric |-> <<>>, columns |-> <<>>]

NoArtifact == [written |-> FALSE, summary |-> <<>>, comparison |-> NoComparison, sheets |-> <<>>]

\* A record an earlier version of the tool left, with the metrics it had.
OldRecord ==
    << "Metric,Value,Details",
       "URL,http://x.io/old,",
       "Title,\"Old, page\",Length: 9 chars",
       "Total Links,2,Total number of links found" >>

\* The results directory as earlier runs may have left it.
InitialStores == { EmptyStore, [f \in {"results/seo_results_old.html.csv"} |-> OldRecord] }

RECURSIVE SeqsUpTo(_, _)
\* The sequences over S of length at most n.
SeqsUpTo(S, n) ==
    IF n = 0 THEN {<<>>}
    ELSE LET shorter == SeqsUpTo(S, n - 1)
         IN  shorter \cup {Append(q, x) : q \in shorter, x \in S}

(***************************************************************************)
(* The process: main of master_seo_analyzer.py.                            *)
(***************************************************************************)
Init ==
    /\ mode \in Modes
    /\ has_url_column \in BOOLEAN
    /\ urls \in SeqsUpTo(Urls, MaxUrls)
    /\ mode \in SingleModes => Len(urls) = 1
    /\ mode \notin SingleModes \cup BatchModes => urls = <<>>
    /\ mode \notin BatchModes => has_url_column
    /\ ~has_url_column => urls = <<>>
    /\ pc = "main"
    /\ i = 1
    /\ now = 1
    /\ response = NoResponse
    /\ analysis = NoAnalysis
    /\ output_path = ""
    /\ store \in InitialStores
    /\ success_count = 0
    /\ attempts = <<>>
    /\ compile_runs = 0
    /\ artifact = NoArtifact
    /\ last_error = ""
    /\ exit_code = -1

\* Every way out of the process reports success.
ExitAlwaysZero(code, error) ==
    /\ pc' = "exited"
    /\ exit_code' = 0
    /\ last_error' = error

\* The process ends with the status code, an error line printed before.
Exit(code, error) ==
    /\ pc' = "exited"
    /\ exit_code' = code
    /\ last_error' = error

\* main, lines 216-243: the branch the arguments select.
ParseArgs ==
    /\ pc = "main"
    /\ CASE mode = "compile_only" -> pc' = "compile" /\ UNCHANGED <<exit_code, last_error>>
         [] mode \in BatchModes -> pc' = "read_batch" /\ UNCHANGED <<exit_code, last_error>>
         [] mode \in SingleModes -> pc' = "analyze" /\ UNCHANGED <<exit_code, last_error>>
         [] mode = "full_no_input" -> Exit(1, "Error: Input source required for full workflow")
         [] OTHER -> Exit(1, "")
    /\ UNCHANGED <<mode, has_url_column, urls, i, now, response, analysis, output_path, store,
                   success_count, attempts, compile_runs, artifact>>

\* analyze_batch_urls, lines 51-63: the batch file is read; without a url
\* column the ValueError is caught at line 89 and the call returns False.
ReadBatchFile ==
    /\ pc = "read_batch"
    /\ IF ~has_url_column THEN Exit(1, "Error in batch analysis")
       ELSE /\ pc' = IF urls = <<>> THEN "batch_return" ELSE "analyze"
            /\ UNCHANGED <<exit_code, last_error>>
    /\ i' = 1
    /\ success_count' = 0
    /\ UNCHANGED <<mode, has_url_column, urls, now, response, analysis, output_path, store,
                   attempts, compile_runs, artifact>>

\* analyze_page(url) called at line 69 (batch) or 35 (single).  Where it
\* fails it calls sys.exit(1); SystemExit is no Exception, so no handler
\* of the callers (lines 39, 73, 89, 148, 248) catches it: the process ends.
\* The reply resp came and analyze_page ended with r.
Analyzed(resp, r) ==
    /\ response' = resp
    /\ IF r.ok
       THEN /\ analysis' = r.rows
            /\ pc' = "export"
            /\ UNCHANGED <<exit_code, last_error>>
       ELSE /\ Exit(1, "Error analyzing page")
            /\ UNCHANGED analysis

AnalyzeUrl ==
    /\ pc = "analyze"
    /\ \E resp \in Responses : Analyzed(resp, AnalyzePage(urls[i], resp, now))
    /\ attempts' = Append(attempts, urls[i])
    /\ now' = now + 1
    /\ UNCHANGED <<mode, has_url_column, urls, i, output_path, store, success_count,
                   compile_runs, artifact>>

\* Where the process goes after export_to_csv returned: the next URL of the
\* batch, the end of the loop, or past analyze_single_url.  This one
\* compiles as soon as a page of the full workflow is exported.
AfterExportCompileInLoop(m, idx, us) ==
    CASE m = "full_batch" -> "compile"
      [] m = "batch" -> IF idx < Len(us) THEN "analyze" ELSE "batch_return"
      [] m = "full_single" -> "compile"
      [] OTHER -> "exited"

AfterExport(m, idx, us) ==
    CASE m \in BatchModes -> IF idx < Len(us) THEN "analyze" ELSE "batch_return"
      [] m = "full_single" -> "compile"
      [] OTHER -> "exited"

\* export_to_csv(analysis, url) called at line 70 or 36.  written is the
\* number of records in the file when it is closed: all of them, or fewer
\* when a write raised after open(path, 'w') emptied the file, or -1 when
\* makedirs or open raised.  A failure prints and calls sys.exit(1).
Exported(path, lines) ==
    /\ output_path' = path
    /\ \E written \in (-1)..Len(lines) :
          /\ store' = IF written = -1 THEN store
                      ELSE WriteFile(store, path, SubSeq(lines, 1, written))
          /\ IF written < Len(lines)
             THEN /\ Exit(1, "Error exporting to CSV")
                  /\ UNCHANGED <<i, success_count>>
             ELSE /\ pc' = AfterExport(mode, i, urls)
                  /\ exit_code' = IF mode = "single" THEN 0 ELSE exit_code
                  /\ i' = IF mode \in BatchModes THEN i + 1 ELSE i
                  /\ success_count' = IF mode \in BatchModes THEN success_count + 1
                                      ELSE success_count
                  /\ UNCHANGED last_error

ExportUrl ==
    /\ pc = "export"
    /\ Exported(OutputPath(urls[i]), CsvLines(analysis))
    /\ UNCHANGED <<mode, has_url_column, urls, now, response, analysis, attempts,
                   compile_runs, artifact>>

\* analyze_batch_urls line 87 and its callers: main (line 238) exits with
\* the result, run_full_workflow (lines 127-136) stops or goes on to compile.
BatchReturn ==
    /\ pc = "batch_return"
    /\ LET success == success_count = Len(urls)
       IN  IF mode = "full_batch" /\ success
           THEN pc' = "compile" /\ UNCHANGED <<exit_code, last_error>>
           ELSE Exit(IF success THEN 0 ELSE 1, last_error)
    /\ UNCHANGED <<mode, has_url_column, urls, i, now, response, analysis, output_path, store,
                   success_count, attempts, compile_runs, artifact>>

\* compile_results -> compile_to_excel.  load_csv_files raises before the
\* workbook is opened; opened says whether pd.ExcelWriter could create it.
Compiled(loaded) ==
    \E opened \in BOOLEAN :
        IF loaded.ok /\ opened
        THEN /\ artifact' = Workbook(loaded.frames)
             /\ Exit(0, last_error)
        ELSE /\ Exit(1, "Error compiling results")
             /\ UNCHANGED artifact

CompileResults ==
    /\ pc = "compile"
    /\ compile_runs' = compile_runs + 1
    /\ Compiled(LoadCsvFiles(store))
    /\ UNCHANGED <<mode, has_url_column, urls, i, now, response, analysis, output_path, store,
                   success_count, attempts>>

Next ==
    \/ ParseArgs
    \/ ReadBatchFile
    \/ AnalyzeUrl
    \/ ExportUrl
    \/ BatchReturn
    \/ CompileResults

Spec == Init /\ [][Next]_vars

(***************************************************************************)
(* The single-URL run (main line 235, analyze_single_url) on the pages of  *)
(* PageResponses.                                                          *)
(***************************************************************************)
InitSingle == Init /\ mode = "single"

\* analyze_single_url line 35: analyze_page on the one URL of the run
AnalyzeSingleUrl ==
    /\ pc = "analyze"
    /\ \E resp \in PageResponses : Analyzed(resp, AnalyzePage(urls[i], resp, now))
    /\ attempts' = Append(attempts, urls[i])
    /\ now' = now + 1
    /\ UNCHANGED <<mode, has_url_column, urls, i, output_path, store, success_count,
                   compile_runs, artifact>>

NextSingle ==
    \/ ParseArgs
    \/ AnalyzeSingleUrl
    \/ ExportUrl

SpecSingle == InitSingle /\ [][NextSingle]_vars

(***************************************************************************)
(* The run with the user's interrupt.  KeyboardInterrupt is no Exception:  *)
(* raised inside the try of main it passes every handler of the callees    *)
(* and reaches line 245, which prints and returns 1.                       *)
(***************************************************************************)
\* The interrupt arrives while the batch file is read, a page is requested,
\* a record is written (the file keeps the rows written so far), the batch
\* returns, or the records are loaded for the workbook.
Cancel ==
    /\ pc \in {"read_batch", "analyze", "export", "batch_return", "compile"}
    /\ Exit(1, "Operation cancelled by user")
    /\ IF pc = "export"
       THEN /\ output_path' = OutputPath(urls[i])
            /\ \E written \in (-1)..Len(CsvLines(analysis)) :
                  store' = IF written = -1 THEN store
                           ELSE WriteFile(store, OutputPath(urls[i]),
                                          SubSeq(CsvLines(analysis), 1, written))
       ELSE UNCHANGED <<output_path, store>>
    /\ UNCHANGED <<mode, has_url_column, urls, i, now, response, analysis, success_count,
                   attempts, compile_runs, artifact>>

NextCancel ==
    \/ Next
    \/ Cancel

SpecCancel == Init /\ [][NextCancel]_vars

(***************************************************************************)
(* The properties.                                                         *)
(***************************************************************************)
\* C1: in batch mode a page whose analysis failed at the scraping API does
\* not keep the pages after it from being attempted: a batch run that has
\* ended after such a failure has handed every URL of the list to
\* analyze_page.
C1_BatchAttemptsEveryUrl ==
    ( /\ pc = "exited"
      /\ mode \in BatchModes
      /\ has_url_column
      /\ attempts # <<>>
      /\ (response.raised \/ response.status_code # 200 \/ ~response.success) )
    => attempts = urls

\* C2: a reply with a status other than 200 or with success false yields
\* no analysis and leaves the record store as it was, and export_to_csv is
\* only ever entered after a reply with status 200 and success true.
C2_FailedCallLeavesStore ==
    [][ /\ (pc = "analyze" /\ (response'.status_code # 200 \/ ~response'.success))
           => (analysis' = analysis /\ store' = store /\ pc' # "export")
        /\ pc' = "export" => (response'.status_code = 200 /\ response'.success) ]_vars

\* A second page of a batch failed at the API after the first was stored.
C2_Witness ==
    /\ pc = "exited"
    /\ last_error = "Error analyzing page"
    /\ (response.status_code # 200 \/ ~response.success)
    /\ Len(attempts) = 2
    /\ success_count = 1
    /\ analysis # NoAnalysis

\* C3: in the full workflow compile_to_excel is entered only after every
\* URL of the run has been handed to analyze_page.
C3_CompileAfterEveryAttempt ==
    (mode \in {"full_batch", "full_single"} /\ (pc = "compile" \/ compile_runs > 0))
    => attempts = urls

\* The full workflow compiled after a batch of two URLs.
C3_Witness ==
    /\ mode = "full_batch"
    /\ compile_runs = 1
    /\ Len(urls) = 2
    /\ Len(attempts) = 2

\* C4: compiling with no record file in the results directory ends in the
\* error and writes no workbook, and a workbook that is written is never
\* one without a page.
C4_NoRecordsNoArtifact ==
    [][ /\ (pc = "compile" /\ DOMAIN store = {})
           => (artifact' = artifact /\ exit_code' = 1 /\ last_error' = "Error compiling results")
        /\ artifact'.written => (artifact'.sheets # <<>> /\ artifact'.summary # <<>>) ]_vars

\* A compile-only run ended on an empty results directory.
C4_Witness ==
    /\ pc = "exited"
    /\ mode = "compile_only"
    /\ compile_runs = 1
    /\ DOMAIN store = {}
    /\ exit_code = 1
    /\ ~artifact.written

\* C5: the comparison table of a written workbook has one row per metric
\* name of the union over the loaded pages, in strictly increasing order
\* of the names, one column per page, and each cell is the page's value of
\* the metric where the page reports it and the empty string where not.
C5_ComparisonRows ==
    artifact.written =>
        LET frames == LoadCsvFiles(store).frames
            cmp    == artifact.comparison
        IN  /\ {cmp.Metric[j] : j \in 1..Len(cmp.Metric)}
                 = UNION {{frames[k].rows[r].metric.s : r \in 1..Len(frames[k].rows)} :
                            k \in 1..Len(frames)}
            /\ \A j \in 1..(Len(cmp.Metric) - 1) : StrLess(cmp.Metric[j], cmp.Metric[j + 1])
            /\ Len(cmp.columns) = Len(frames)
            /\ \A k \in 1..Len(frames) :
                 /\ Len(cmp.columns[k].cells) = Len(cmp.Metric)
                 /\ \A j \in 1..Len(cmp.Metric) :
                      LET reported == {r \in 1..Len(frames[k].rows) :
                                          frames[k].rows[r].metric.s = cmp.Metric[j]}
                      IN  IF reported = {} THEN cmp.columns[k].cells[j] = Str("")
                          ELSE \E r \in reported :
                                  cmp.columns[k].cells[j] = frames[k].rows[r].value

\* A workbook of two pages, the older one without the Canonical URL metric
\* the other reports: the row is there and the older page's cell is empty.
C5_Witness ==
    /\ artifact.written
    /\ Len(artifact.comparison.columns) = 2
    /\ Len(artifact.comparison.Metric) = 25
    /\ artifact.comparison.Metric[1] = "Canonical URL"
    /\ \E k \in 1..2 :
         /\ artifact.comparison.columns[k].name = "old.html"
         /\ artifact.comparison.columns[k].cells[1] = Str("")

\* C6: the record export_to_csv wrote, loaded back as load_csv_files loads
\* it, gives the (Metric, Value) pairs of the analysis in the same order;
\* a value counts as the same when its text is the same, so that a count
\* read back as text passes.
C6_RoundTrip ==
    [][ (pc = "export" /\ exit_code' # 1) =>
            LET back == ReadCsv(store'[output_path'])
            IN  /\ back.ok
                /\ Len(back.rows) = Len(analysis)
                /\ \A k \in 1..Len(analysis) :
                     /\ back.rows[k].metric = Str(analysis[k].metric)
                     /\ PyStr(back.rows[k].value) = PyStr(analysis[k].value) ]_vars

\* C7: a successful export for a URL whose record file exists replaces
\* that file by the new record, adds no file and changes no other file.
C7_ReanalysisOverwrites ==
    [][ (pc = "export" /\ exit_code' # 1 /\ OutputPath(urls[i]) \in DOMAIN store) =>
            /\ DOMAIN store' = DOMAIN store
            /\ store'[OutputPath(urls[i])] = CsvLines(analysis)
            /\ \A f \in DOMAIN store \ {OutputPath(urls[i])} : store'[f] = store[f] ]_vars

\* A batch analysed the same URL twice, beside the record of another page.
C7_Witness ==
    /\ Len(urls) = 2
    /\ urls[1] = urls[2]
    /\ success_count = 2
    /\ DOMAIN store = {"results/seo_results_old.html.csv", OutputPath(urls[1])}
    /\ store[OutputPath(urls[1])] = CsvLines(analysis)

\* C8: the record file is seo_results_<key>.csv with key the last segment
\* of the URL path: index.html for an empty segment, the segment plus
\* .html for a segment without an extension, the segment itself otherwise.
C8_OutputKey ==
    [][ pc = "export" =>
            LET seg == LastSegment(UrlPath(urls[i]))
                key == IF seg = "" THEN "index.html"
                       ELSE IF Find(seg, ".", 1) = 0 THEN seg \o ".html"
                       ELSE seg
            IN  output_path' = "results/seo_results_" \o key \o ".csv" ]_vars

\* C9: after export_to_csv, ended well or not, the record file holds the
\* header and every row of the analysis, or is as it was before the call.
C9_RecordWholeOrUntouched ==
    [][ pc = "export" =>
            \/ /\ output_path' \in DOMAIN store'
               /\ store'[output_path'] = CsvLines(analysis)
            \/ /\ output_path' \notin DOMAIN store'
               /\ output_path' \notin DOMAIN store
            \/ /\ output_path' \in DOMAIN store'
               /\ output_path' \in DOMAIN store
               /\ store'[output_path'] = store[output_path'] ]_vars

\* C10: a page the API delivered whose HTML holds ld+json blocks is
\* analysed without error, and its Schema Markup value is the number of
\* the blocks whose body parses as JSON.
C10_SchemaBlocksCounted ==
    [][ ( /\ pc = "analyze"
          /\ ~response'.raised /\ response'.status_code = 200 /\ response'.success
          /\ Find(response'.html, "application/ld+json", 1) > 0 ) =>
            /\ pc' = "export"
            /\ \E k \in 1..Len(analysis') :
                 /\ analysis'[k].metric = "Schema Markup"
                 /\ analysis'[k].value = PyInt(Len(ExtractSchemaMarkup(response'.html))) ]_vars

\* C11: of the images of an analysed page, has_alt is true exactly for the
\* tags that carry a non-empty alt attribute; Images Missing Alt counts the
\* tags without one and its detail holds the source of each of them.
\* AltOfTag is the value of the alt attribute as an HTML parser reads it: the
\* quoted text after the attribute named alt, wherever it stands in the tag.
C11_HasAltIffAltAttribute ==
    analysis # NoAnalysis =>
        LET AltHits(tag) ==
                {a \in 2..Len(tag) :
                    /\ CharAt(tag, a - 1) \in JsonWs
                    /\ At(Lower(tag), a, "alt=")
                    /\ CharAt(tag, a + 4) \in Quotes
                    /\ Find(tag, CharAt(tag, a + 4), a + 5) > 0}
            AltFrom(tag, a) == SubSeq(tag, a + 5, Find(tag, CharAt(tag, a + 4), a + 5) - 1)
            AltOfTag(tag) == IF AltHits(tag) = {} THEN "" ELSE AltFrom(tag, Min(AltHits(tag)))
            tags   == TagMatches(response.html, Lower(response.html), "<img", "src", 1)
            images == ExtractImagesFromHtml(response.html, urls[1])
            NoAlt  == {k \in 1..Len(tags) : AltOfTag(tags[k].whole) = ""}
        IN  /\ \A k \in 1..Len(images) : images[k].has_alt <=> k \notin NoAlt
            /\ \E r \in 1..Len(analysis) :
                 /\ analysis[r].metric = "Images Missing Alt"
                 /\ analysis[r].value = PyInt(Cardinality(NoAlt))
                 /\ \A k \in NoAlt : Find(analysis[r].details, images[k].src, 1) > 0

\* C12: the Canonical URL of an analysed page is the canonical of the
\* metadata when that is present and non-empty, else what the HTML extractor
\* found, else "Not found"; the HTML never overrides the metadata.
C12_CanonicalPrecedence ==
    analysis # NoAnalysis =>
        \E r \in 1..Len(analysis) :
            /\ analysis[r].metric = "Canonical URL"
            /\ analysis[r].value =
                 IF response.metadata.canonical \notin {Absent, Str("")}
                 THEN response.metadata.canonical
                 ELSE IF ExtractCanonicalTag(response.html) \notin {Absent, Str("")}
                 THEN ExtractCanonicalTag(response.html)
                 ELSE Str("Not found")

\* A page was analysed whose metadata and HTML name different canonicals.
C12_Witness ==
    /\ analysis # NoAnalysis
    /\ response.metadata.canonical = Str("http://x.io/m")
    /\ ExtractCanonicalTag(response.html) = Str("http://x.io/c")

\* C13: in every summary row of the workbook, Title Length and Meta
\* Description Length are the numbers of characters of the Title and the
\* Meta Description the page's record holds, 0 for a field that is empty or
\* not in the record; a metric the record lacks is 0 in a count column and
\* "" in a text column.
C13_SummaryLengths ==
    artifact.written =>
        \A r \in 1..Len(artifact.summary) :
            \E f \in CsvFiles(store) :
                LET Cells(k)     == CsvReadRow(store[f][k])
                    Lines(m)     == {k \in 2..Len(store[f]) : CellText(Cells(k), 1) = m}
                    Text(m)      == IF Lines(m) = {} THEN ""
                                    ELSE CellText(Cells(Max(Lines(m))), 2)
                    row          == artifact.summary[r]
                IN  /\ UrlName(Basename(f)) = row.URL_Name.s
                    /\ row.Title_Length = PyInt(Len(Text("Title")))
                    /\ row.Meta_Description_Length = PyInt(Len(Text("Meta Description")))
                    /\ Lines("Schema Markup") = {} => row.Schema_Markup_Count = PyInt(0)
                    /\ Lines("Canonical URL") = {} => row.Canonical_URL = Str("")

\* C14: the process ends with code 0 exactly when every step the arguments
\* asked for succeeded: the batch file had its url column, every URL was
\* analysed and the record of the last one, stamped with the time of its
\* attempt, written in full, the workbook was written when compilation was
\* asked for, and the user did not cancel; it ends with code 1 otherwise.
C14_ExitCode ==
    pc = "exited" =>
        LET analysed  == /\ has_url_column
                         /\ attempts = urls
                         /\ urls # <<>> =>
                              /\ ~response.raised /\ response.status_code = 200
                              /\ response.success
                              /\ analysis # NoAnalysis
                              /\ analysis[1].value = Str(FormatTime(Len(urls)))
                              /\ output_path = OutputPath(urls[Len(urls)])
                              /\ output_path \in DOMAIN store
                              /\ store[output_path] = CsvLines(analysis)
            compiled  == artifact.written /\ compile_runs = 1
            cancelled == last_error = "Operation cancelled by user"
            succeeded ==
                CASE mode \in {"single", "batch"} -> analysed
                  [] mode \in {"full_single", "full_batch"} -> analysed /\ compiled
                  [] mode = "compile_only" -> compiled
                  [] OTHER -> FALSE
        IN  exit_code = IF succeeded /\ ~cancelled THEN 0 ELSE 1

\* A full workflow on a batch of two URLs ended with code 0.
C14_Witness ==
    /\ pc = "exited"
    /\ mode = "full_batch"
    /\ Len(urls) = 2
    /\ exit_code = 0

\* C15: no link the extractor returns for the HTML of an analysed page has
\* a target that is empty or starts with '#', 'javascript:' or 'mailto:';
\* Total Links counts the anchors with other targets only, and Internal,
\* External and Nofollow Links count among these.
C15_NoSkippedTargets ==
    analysis # NoAnalysis =>
        LET Skipped(t) == \/ t = ""
                          \/ SubSeq(t, 1, 1) = "#"
                          \/ (Len(t) >= 11 /\ SubSeq(t, 1, 11) = "javascript:")
                          \/ (Len(t) >= 7 /\ SubSeq(t, 1, 7) = "mailto:")
            links   == ExtractLinksFromHtml(response.html)
            anchors == TagMatches(response.html, Lower(response.html), "<a", "href", 1)
            kept    == {k \in 1..Len(anchors) : ~Skipped(anchors[k].value)}
            Value(m) == (CHOOSE r \in 1..Len(analysis) : analysis[r].metric = m)
            Count(m) == analysis[Value(m)].value.n
        IN  /\ \A k \in 1..Len(links) : ~Skipped(links[k].url)
            /\ Count("Total Links") = Cardinality(kept)
            /\ Count("Internal Links") + Count("External Links") = Cardinality(kept)
            /\ Count("Nofollow Links") <= Cardinality(kept)

\* A page was analysed whose anchors have a fragment and a mailto target and
\* one target that counts.
C15_Witness ==
    /\ analysis # NoAnalysis
    /\ Find(response.html, "href=\"#top\"", 1) > 0
    /\ Find(Lower(response.html), "href=\"mailto:", 1) > 0
    /\ ExtractLinksFromHtml(response.html) # <<>>

\* C16: after a batch whose URLs were all analysed and written, the store
\* holds one record for every distinct URL of the batch next to the records
\* it held before: distinct URLs have distinct record files, and the summary
\* of a workbook compiled then has one row for each of them.
C16_OneRecordPerUrl ==
    (pc = "exited" /\ mode \in BatchModes /\ exit_code = 0) =>
        LET distinct == {urls[k] : k \in 1..Len(urls)}
            earlier  == DOMAIN store \cap {"results/seo_results_old.html.csv"}
            records  == DOMAIN store \ earlier
        IN  /\ \A u, v \in distinct : u # v => OutputPath(u) # OutputPath(v)
            /\ Cardinality(records) = Cardinality(distinct)
            /\ artifact.written =>
                 Len(artifact.summary) = Cardinality(distinct) + Cardinality(earlier)

\* C17: for each level k of 1, 2, 3 the value of Hk Headings of an analysed
\* page is the number of heading texts its detail joins: the count and the
\* texts come from the same lines of the Markdown.
C17_HeadingCountMatchesTexts ==
    analysis # NoAnalysis =>
        \A k \in 1..3 :
            LET marker == SubSeq("###", 1, k)
                texts  == MarkedContent(response.markdown, marker, 1)
            IN  \E r \in 1..Len(analysis) :
                    /\ analysis[r].metric = "H" \o ToString(k) \o " Headings"
                    /\ analysis[r].details = Join(texts, "; ")
                    /\ analysis[r].value = PyInt(Len(texts))

====
